---- MODULE Spec2Model ----
(***************************************************************************)
(* Model of viz.py: batch_of_images_to_grid (tiling a batch of images into *)
(* one grid image) and sample_images_from_each_class (one band of sample   *)
(* images per class, each band led by the class's label icon).             *)
(*                                                                         *)
(* A numpy array is a record [dtype, shape, data]: data is the array's     *)
(* content flattened in C (row-major) order, so element (i0, .., ir) of an *)
(* array of shape (s0, .., sr) is data[1 + Ravel(<<i0, .., ir>>, shape)].  *)
(***************************************************************************)
EXTENDS Integers, Sequences, FiniteSets

\* ------------------------------------------------------------------ bounds
MaxBatch == 3       \* images in a batch: 0..MaxBatch
MaxH == 2           \* image height: 1..MaxH
MaxW == 2           \* image width: 1..MaxW
MaxC == 2           \* channels of a batch given to batch_of_images_to_grid: 1..MaxC
MaxArg == 2         \* rows, cols and n range over -1..MaxArg
MaxCalls == 2       \* calls made on the same arguments in one behaviour
MaxLabel == 1       \* class labels in Y: 0..MaxLabel

\* Channels of a label icon after scipy.misc.imread(img_file)[:,:,:3].
LabelChannels == 3

\* ----------------------------------------------------------- numpy arrays
RECURSIVE Prod(_)
Prod(s) == IF s = <<>> THEN 1 ELSE Head(s) * Prod(Tail(s))

RECURSIVE Unravel(_, _)
\* The multi-index (0-based) of flat position k (0-based) in shape s.
Unravel(k, s) ==
    IF s = <<>> THEN <<>>
    ELSE LET inner == Prod(Tail(s))
         IN  <<k \div inner>> \o Unravel(k % inner, Tail(s))

RECURSIVE RavelFrom(_, _, _, _)
RavelFrom(acc, d, idx, s) ==
    IF d > Len(s) THEN acc
    ELSE RavelFrom(acc * s[d] + idx[d], d + 1, idx, s)

\* The flat position (0-based) of multi-index idx in shape s.
Ravel(idx, s) == RavelFrom(0, 1, idx, s)

ndim(a) == Len(a.shape)

\* The value that stands for "no array" in an outcome that is an error.
NoArray == [dtype |-> "none", shape |-> <<>>, data |-> <<>>]

\* Mutant of SliceFirst: a[-stop:], the last stop images instead of the first.
SliceLast(a, stop) ==
    LET len   == a.shape[1]
        drop  == IF stop <= 0 \/ stop > len THEN 0 ELSE len - stop
        inner == Prod(Tail(a.shape))
    IN  [dtype |-> a.dtype,
         shape |-> <<len - drop>> \o Tail(a.shape),
         data  |-> SubSeq(a.data, drop * inner + 1, len * inner)]

\* a[:stop] along axis 0 (ndim >= 1), with Python's slice clamping.
SliceFirst(a, stop) ==
    LET len   == a.shape[1]
        bound == IF stop < 0
                 THEN (IF stop + len < 0 THEN 0 ELSE stop + len)
                 ELSE (IF stop > len THEN len ELSE stop)
        inner == Prod(Tail(a.shape))
    IN  [dtype |-> a.dtype,
         shape |-> <<bound>> \o Tail(a.shape),
         data  |-> SubSeq(a.data, 1, bound * inner)]

\* np.expand_dims(a, axis=ndim): a trailing axis of length one.
expand_dims(a) ==
    [dtype |-> a.dtype, shape |-> a.shape \o <<1>>, data |-> a.data]

\* Mutant of np_pad: the blank images are filled with ones.
np_pad_ones(a, n_gap) ==
    LET inner == Prod(Tail(a.shape))
    IN  [dtype |-> a.dtype,
         shape |-> <<a.shape[1] + n_gap>> \o Tail(a.shape),
         data  |-> a.data \o [k \in 1..(n_gap * inner) |-> 1]]

\* np.pad(a, [(0,n_gap),(0,0),(0,0),(0,0)], mode="constant", constant_values=0)
np_pad(a, n_gap) ==
    LET inner == Prod(Tail(a.shape))
    IN  [dtype |-> a.dtype,
         shape |-> <<a.shape[1] + n_gap>> \o Tail(a.shape),
         data  |-> a.data \o [k \in 1..(n_gap * inner) |-> 0]]

\* a.reshape(newshape): same elements in the same C order.
reshape(a, newshape) ==
    [dtype |-> a.dtype, shape |-> newshape, data |-> a.data]

SwapIdx(idx, ax1, ax2) ==
    [d \in 1..Len(idx) |->
        IF d = ax1 + 1 THEN idx[ax2 + 1]
        ELSE IF d = ax2 + 1 THEN idx[ax1 + 1]
        ELSE idx[d]]

\* Mutant of swapaxes: the axes are renamed but the elements are not moved.
swapaxes_unmoved(a, ax1, ax2) ==
    [dtype |-> a.dtype, shape |-> SwapIdx(a.shape, ax1, ax2), data |-> a.data]

\* a.swapaxes(ax1, ax2) (axes numbered from 0), laid out again in C order.
swapaxes(a, ax1, ax2) ==
    LET newshape == SwapIdx(a.shape, ax1, ax2)
    IN  [dtype |-> a.dtype,
         shape |-> newshape,
         data  |-> [k \in 1..Prod(newshape) |->
                      a.data[1 + Ravel(SwapIdx(Unravel(k - 1, newshape), ax1, ax2),
                                       a.shape)]]]

\* Mutant of squeeze: the channel axis is left in place.
squeeze_skipped(a) == a

\* a.squeeze(axis=2) of a rank-3 array whose last axis has length one.
squeeze(a) ==
    [dtype |-> a.dtype, shape |-> SubSeq(a.shape, 1, 2), data |-> a.data]

\* ------------------------------------------------- batch_of_images_to_grid
Raise(kind) == [err |-> kind, grid |-> NoArray]
Return(g)   == [err |-> "none", grid |-> g]

\* Lines 48-70: the body after the truncation, on the truncated batch.
TileBatch(sliced, rows, cols) ==
    LET n_dims  == ndim(sliced)
        n_cells == rows * cols
    IN  IF ~(n_dims = 3 \/ n_dims = 4) THEN Raise("AssertionError")
        ELSE
        LET imgs4      == IF n_dims = 3 THEN expand_dims(sliced) ELSE sliced
            n_batch    == imgs4.shape[1]
            img_height == imgs4.shape[2]
            img_width  == imgs4.shape[3]
            n_channels == imgs4.shape[4]
            n_gap      == n_cells - n_batch
            padded     == np_pad(imgs4, n_gap)
            grid5      == swapaxes(reshape(padded,
                              <<rows, cols, img_height, img_width, n_channels>>), 1, 2)
            grid3      == reshape(grid5,
                              <<rows * img_height, cols * img_width, n_channels>>)
        IN  Return(IF n_dims = 3 THEN squeeze(grid3) ELSE grid3)

\* Mutant of batch_of_images_to_grid: the assertion lets zero through.
batch_of_images_to_grid_nonneg(imgs, rows, cols) ==
    IF ~(rows >= 0 /\ cols >= 0) THEN Raise("AssertionError")
    ELSE IF ndim(imgs) = 0 THEN Raise("IndexError")
    ELSE TileBatch(SliceFirst(imgs, rows * cols), rows, cols)

batch_of_images_to_grid(imgs, rows, cols) ==
    IF ~(rows > 0 /\ cols > 0) THEN Raise("AssertionError")
    ELSE IF ndim(imgs) = 0 THEN Raise("IndexError")   \* imgs[:n_cells] of a 0-d array
    ELSE TileBatch(SliceFirst(imgs, rows * cols), rows, cols)

\* ------------------------------------------- sample_images_from_each_class
\* X[Y == id]: the images of X whose label is id, in their order in X.
BoolIndex(X, Y, id) ==
    LET keep  == SelectSeq([k \in 1..Len(Y) |-> k], LAMBDA k : Y[k] = id)
        inner == Prod(Tail(X.shape))
    IN  [dtype |-> X.dtype,
         shape |-> <<Len(keep)>> \o Tail(X.shape),
         data  |-> [p \in 1..(Len(keep) * inner) |->
                      X.data[(keep[((p - 1) \div inner) + 1] - 1) * inner
                             + ((p - 1) % inner) + 1]]]

\* Lines 120-122: the icon of class id, read from images/<id>.png, cut to its
\* first three channels and resized to the sample images' height and width.
\* The file's content is outside the program: pixel IconValue(id) stands for it.
IconValue(id) == 0 - (id + 1)
label_img(id, img_height, img_width) ==
    [dtype |-> "num",
     shape |-> <<img_height, img_width, LabelChannels>>,
     data  |-> [k \in 1..(img_height * img_width * LabelChannels) |-> IconValue(id)]]

\* np.append(a, b, axis) needs equal rank and equal lengths off the axis.
CanAppend(a, b, axis) ==
    /\ ndim(a) = ndim(b)
    /\ \A d \in 1..ndim(a) : d # axis + 1 => a.shape[d] = b.shape[d]

\* np.append(a, b, axis=axis) (axis numbered from 0) when CanAppend.
np_append(a, b, axis) ==
    LET newshape == [d \in 1..ndim(a) |->
                        IF d = axis + 1 THEN a.shape[d] + b.shape[d] ELSE a.shape[d]]
        Elem(k)  == LET idx == Unravel(k - 1, newshape)
                    IN  IF idx[axis + 1] < a.shape[axis + 1]
                        THEN a.data[1 + Ravel(idx, a.shape)]
                        ELSE b.data[1 + Ravel([idx EXCEPT ![axis + 1] =
                                                   @ - a.shape[axis + 1]], b.shape)]
    IN  [dtype |-> "num", shape |-> newshape,
         data |-> [k \in 1..Prod(newshape) |-> Elem(k)]]

\* Y.max() of a non-empty label array.
RECURSIVE SeqMax(_)
SeqMax(s) ==
    IF Len(s) = 1 THEN s[1]
    ELSE LET m == SeqMax(Tail(s)) IN IF s[1] > m THEN s[1] ELSE m

\* Lines 106-107: n_classes is [given, value]; given = FALSE is None.
InferClasses(Y, n_classes) ==
    IF n_classes.given THEN n_classes.value ELSE SeqMax(Y)

RECURSIVE ForEachClass(_, _, _, _, _, _)
\* Lines 114-128: the loop from class id on, grid holding the bands so far.
ForEachClass(X, Y, n_classes, cols, id, grid) ==
    IF id >= n_classes THEN Return(grid)
    ELSE
    LET imgs == SliceFirst(BoolIndex(X, Y, id), cols)
        row  == batch_of_images_to_grid(imgs, 1, cols)
        icon == label_img(id, X.shape[2], X.shape[3])
    IN  IF row.err # "none" THEN Raise(row.err)
        ELSE IF ~CanAppend(icon, row.grid, 1) THEN Raise("ValueError")
        ELSE LET row2 == np_append(icon, row.grid, 1)
             IN  IF ~CanAppend(grid, row2, 0) THEN Raise("ValueError")
                 ELSE ForEachClass(X, Y, n_classes, cols, id + 1,
                                   np_append(grid, row2, 0))

sample_images_from_each_class(X, Y, n_classes, n) ==
    LET cols       == n
        img_width  == X.shape[3]
        n_channels == X.shape[4]
    IN  IF ~n_classes.given /\ Len(Y) = 0 THEN Raise("ValueError")  \* max of nothing
        ELSE ForEachClass(X, Y, InferClasses(Y, n_classes), cols, 0,
                 [dtype |-> "num",
                  shape |-> <<0, img_width * (cols + 1), n_channels>>,
                  data  |-> <<>>])

\* ------------------------------------------------------------------ inputs
\* Pixel contents: "index" gives every element its own non-zero value, "image"
\* fills image k with k + 1, "zero" is all zero.
Fills == {"index", "image", "zero"}

FillValue(f, k, s) ==
    CASE f = "index"  -> k + 1
      [] f = "image"  -> IF s = <<>> THEN 1 ELSE (k \div Prod(Tail(s))) + 1
      [] f = "zero"   -> 0

MkArray(s, f) ==
    [dtype |-> "num", shape |-> s,
     data |-> [k \in 1..Prod(s) |-> FillValue(f, k - 1, s)]]

\* Lengths of axis d: the batch axis may be empty, the others are not.
DimRange(d) ==
    CASE d = 1 -> 0..MaxBatch
      [] d = 2 -> 1..MaxH
      [] d = 3 -> 1..MaxW
      [] d = 4 -> 1..MaxC
      [] OTHER -> {1}

Shapes(r) == {s \in [1..r -> 0..(MaxBatch + MaxH + MaxW + MaxC)] :
                 \A d \in 1..r : s[d] \in DimRange(d)}

\* Numeric arrays of rank 0 to 5; the content takes part only at rank 3 and 4.
NumBatches ==
    {MkArray(s, f) : s \in Shapes(3) \cup Shapes(4), f \in Fills}
    \cup {MkArray(s, "index") : s \in UNION {Shapes(r) : r \in {0, 1, 2, 5}}}

\* Single images of unlike height, width or channel count.
LooseImages ==
    {MkArray(s, "index") : s \in {<<1, 1, 1>>, <<MaxH, 1, 1>>, <<1, MaxW, 1>>, <<1, 1, MaxC>>}}

\* The images of one batch do not all share one shape.
Heterogeneous(a) ==
    /\ a.dtype = "object"
    /\ \E i, j \in 1..Len(a.data) : a.data[i].shape # a.data[j].shape

\* np.array of images of unlike shapes: a rank-1 array of objects.
RaggedBatches ==
    {a \in {[dtype |-> "object", shape |-> <<Len(el)>>, data |-> el] :
               el \in UNION {[1..len -> LooseImages] : len \in 2..MaxBatch}} :
        Heterogeneous(a)}

ArgValues == (0 - 1)..MaxArg

ClassCounts ==
    {[given |-> FALSE, value |-> 0]}
    \cup {[given |-> TRUE, value |-> v] : v \in 0..(MaxLabel + 1)}

SampleBatches ==
    {MkArray(<<b, h, w, c>>, f) :
        b \in 0..MaxBatch, h \in 1..MaxH, w \in 1..MaxW,
        c \in {1, LabelChannels}, f \in {"index"}}

\* --------------------------------------------------------------- the state
VARIABLES
    call,       \* which function this behaviour calls: "grid" or "sample"
    imgs,       \* the caller's batch array, given to batch_of_images_to_grid
    rows, cols, \* its other arguments
    outcome,    \* what the latest call of batch_of_images_to_grid gave
    calls,      \* calls of batch_of_images_to_grid made so far
    X, Y,       \* the images and labels given to sample_images_from_each_class
    n_classes,  \* its n_classes argument: [given, value], given = FALSE is None
    n,          \* its n argument
    sampled     \* what sample_images_from_each_class gave

vars == <<call, imgs, rows, cols, outcome, calls, X, Y, n_classes, n, sampled>>

Pending == [err |-> "pending", grid |-> NoArray]

gridVars   == <<imgs, rows, cols, outcome, calls>>
sampleVars == <<X, Y, n_classes, n, sampled>>

InitGrid ==
    /\ call = "grid"
    /\ imgs \in NumBatches \cup RaggedBatches
    /\ rows \in ArgValues
    /\ cols \in ArgValues
    /\ outcome = Pending
    /\ calls = 0
    /\ X = NoArray /\ Y = <<>> /\ n_classes = [given |-> TRUE, value |-> 0]
    /\ n = 0 /\ sampled = Pending

InitSample ==
    /\ call = "sample"
    /\ X \in SampleBatches
    /\ Y \in [1..X.shape[1] -> 0..MaxLabel]
    /\ n_classes \in ClassCounts
    /\ n \in ArgValues
    /\ sampled = Pending
    /\ imgs = NoArray /\ rows = 0 /\ cols = 0 /\ outcome = Pending /\ calls = 0

Init == InitGrid \/ InitSample

\* Mutant of Call: the truncation is done in place, on the caller's array.
CallTruncatingInPlace ==
    /\ call = "grid"
    /\ calls < MaxCalls
    /\ outcome' = batch_of_images_to_grid(imgs, rows, cols)
    /\ imgs' = IF rows > 0 /\ cols > 0 /\ ndim(imgs) > 0
               THEN SliceFirst(imgs, rows * cols) ELSE imgs
    /\ calls' = calls + 1
    /\ UNCHANGED <<call, rows, cols, sampleVars>>

\* A call of batch_of_images_to_grid: the function binds new arrays to its
\* local names and never writes into the array it was given.
Call ==
    /\ call = "grid"
    /\ calls < MaxCalls
    /\ outcome' = batch_of_images_to_grid(imgs, rows, cols)
    /\ calls' = calls + 1
    /\ UNCHANGED <<call, imgs, rows, cols, sampleVars>>

\* The call of sample_images_from_each_class.
Sample ==
    /\ call = "sample"
    /\ sampled.err = "pending"
    /\ sampled' = sample_images_from_each_class(X, Y, n_classes, n)
    /\ UNCHANGED <<call, X, Y, n_classes, n, gridVars>>

Next == Call \/ Sample

Spec == Init /\ [][Next]_vars

\* ------------------------------------------------- properties: the grid call
\* The error kinds of the specification, as the code raises them: both argument
\* checks of batch_of_images_to_grid are assert statements.
InvalidArgument == "AssertionError"
ShapeMismatch == "ShapeMismatch"

Called == call = "grid" /\ calls >= 1
Positive == rows > 0 /\ cols > 0
ImageBatch == imgs.dtype = "num" /\ ndim(imgs) \in {3, 4}

\* N images of H by W pixels with Chan values each, read off the caller's array.
N == imgs.shape[1]
H == imgs.shape[2]
W == imgs.shape[3]
Chan == IF ndim(imgs) = 4 THEN imgs.shape[4] ELSE 1

ImgPixel(k, i, j, ch) == imgs.data[1 + ((k * H + i) * W + j) * Chan + ch]
GridPixel(g, r, c, ch) == g.data[1 + (r * g.shape[2] + c) * Chan + ch]

GridShape == IF ndim(imgs) = 4 THEN <<rows * H, cols * W, imgs.shape[4]>>
             ELSE <<rows * H, cols * W>>

\* Cell k of grid g, counted row-major, is image k pixel for pixel.
CellIsImage(g, k) ==
    \A i \in 0..(H - 1), j \in 0..(W - 1), ch \in 0..(Chan - 1) :
        GridPixel(g, (k \div cols) * H + i, (k % cols) * W + j, ch) = ImgPixel(k, i, j, ch)

CellIsBlank(g, k) ==
    \A i \in 0..(H - 1), j \in 0..(W - 1), ch \in 0..(Chan - 1) :
        GridPixel(g, (k \div cols) * H + i, (k % cols) * W + j, ch) = 0

Returned(g) ==
    /\ outcome.err = "none"
    /\ g.shape = GridShape
    /\ Len(g.data) = Prod(GridShape)

\* C1: a batch of N images tiled into rows*cols >= N cells gives a grid of
\* rows*H by cols*W pixels whose cell k is image k for k < N and whose cells
\* from N on are all zero.
GridFillsAndPads ==
    (Called /\ ImageBatch /\ Positive /\ rows * cols >= N) =>
        /\ Returned(outcome.grid)
        /\ \A k \in 0..(N - 1) : CellIsImage(outcome.grid, k)
        /\ \A k \in N..(rows * cols - 1) : CellIsBlank(outcome.grid, k)

\* Three 2x2 images filled with 1, 2 and 3 in a 2x2 grid: the last cell is blank.
GridFillsAndPadsWitness ==
    /\ Called /\ rows = 2 /\ cols = 2
    /\ imgs = MkArray(<<3, 2, 2>>, "image")
    /\ outcome = Return([dtype |-> "num", shape |-> <<4, 4>>,
                         data |-> <<1, 1, 2, 2,  1, 1, 2, 2,  3, 3, 0, 0,  3, 3, 0, 0>>])

Range(f) == {f[x] : x \in DOMAIN f}
Distinct(f) == \A x, y \in DOMAIN f : f[x] = f[y] => x = y

\* C2: with rows*cols < N the grid is rows*H by cols*W, cell k is image k for
\* every k < rows*cols, no error is raised, and no pixel of an image from
\* rows*cols on is in the grid (read off batches whose pixels are all unlike).
GridTruncates ==
    (Called /\ ImageBatch /\ Positive /\ rows * cols < N) =>
        /\ Returned(outcome.grid)
        /\ \A k \in 0..(rows * cols - 1) : CellIsImage(outcome.grid, k)
        /\ Distinct(imgs.data) =>
              \A p \in (rows * cols * H * W * Chan + 1)..Len(imgs.data) :
                  imgs.data[p] \notin Range(outcome.grid.data)

\* Three images, two cells: the third image is dropped.
GridTruncatesWitness ==
    /\ Called /\ rows = 1 /\ cols = 2
    /\ imgs = MkArray(<<3, 2, 1>>, "index")
    /\ outcome = Return([dtype |-> "num", shape |-> <<2, 2>>, data |-> <<1, 3, 2, 4>>])

\* C3: a rank-3 batch gives a rank-2 grid [rows*H, cols*W]; a rank-4 batch
\* gives a rank-3 grid [rows*H, cols*W, C] with the batch's C, also for C = 1.
RankPreserved ==
    (Called /\ ImageBatch /\ Positive) =>
        /\ outcome.err = "none"
        /\ ndim(imgs) = 3 =>
              outcome.grid.shape = <<rows * imgs.shape[2], cols * imgs.shape[3]>>
        /\ ndim(imgs) = 4 =>
              outcome.grid.shape =
                  <<rows * imgs.shape[2], cols * imgs.shape[3], imgs.shape[4]>>

\* A batch with a channel axis of length one keeps it in the grid.
RankPreservedWitness ==
    /\ Called /\ Positive /\ ImageBatch
    /\ ndim(imgs) = 4 /\ imgs.shape[4] = 1
    /\ ndim(outcome.grid) = 3 /\ outcome.grid.shape[3] = 1

\* C4: rows <= 0 or cols <= 0 fails with InvalidArgument, whatever the batch,
\* and gives no grid.
NonPositiveRejected ==
    (Called /\ (rows <= 0 \/ cols <= 0)) =>
        outcome.err = InvalidArgument /\ outcome.grid = NoArray

\* rows = 0 with a well-formed batch and a positive cols was rejected.
NonPositiveRejectedWitness ==
    /\ Called /\ rows = 0 /\ cols = 2 /\ ImageBatch /\ N = 2
    /\ outcome.err = InvalidArgument

\* C5: a batch of rank other than 3 and 4, with positive rows and cols, fails
\* with InvalidArgument, the same error kind for every such rank.
BadRankRejected ==
    (Called /\ Positive /\ ndim(imgs) \notin {3, 4}) =>
        outcome.err = InvalidArgument /\ outcome.grid = NoArray

\* C6: a batch whose images do not all share one shape fails with ShapeMismatch.
MismatchRejected ==
    (Called /\ Positive /\ Heterogeneous(imgs)) => outcome.err = ShapeMismatch

Sampled == call = "sample" /\ sampled.err # "pending"

\* The positions in X (from 1) of the images labelled id, in their order in X.
Members(id) == SelectSeq([k \in 1..Len(Y) |-> k], LAMBDA k : Y[k] = id)

XPixel(k, i, j, ch) ==
    X.data[1 + (((k - 1) * X.shape[2] + i) * X.shape[3] + j) * X.shape[4] + ch]
BandPixel(g, r, c, ch) == g.data[1 + (r * g.shape[2] + c) * g.shape[3] + ch]

\* Band id of grid g: the icon of class id, then n cells holding the first
\* images of the class in their order in X, then blank cells.
BandOfClass(g, id) ==
    \A i \in 0..(X.shape[2] - 1), j \in 0..(X.shape[3] - 1), ch \in 0..(X.shape[4] - 1) :
        /\ BandPixel(g, id * X.shape[2] + i, j, ch) = IconValue(id)
        /\ \A m \in 1..n :
              BandPixel(g, id * X.shape[2] + i, m * X.shape[3] + j, ch) =
                  IF m <= Len(Members(id)) THEN XPixel(Members(id)[m], i, j, ch) ELSE 0

Bands(g) == g.shape[1] \div X.shape[2]

\* C8: the call returns a grid with one band per class id 0..n_classes-1, in
\* increasing id, each the class's icon followed by the first n images of X
\* labelled id, in their order in X.
BandPerClass ==
    (Sampled /\ n_classes.given /\ n >= 1) =>
        /\ sampled.err = "none"
        /\ sampled.grid.shape =
              <<n_classes.value * X.shape[2], (n + 1) * X.shape[3], X.shape[4]>>
        /\ \A id \in 0..(n_classes.value - 1) : BandOfClass(sampled.grid, id)

\* What the code does give, when the batch has the icons' three channels.
BandPerClassRGB ==
    (Sampled /\ n_classes.given /\ n >= 1 /\ X.shape[4] = LabelChannels) =>
        /\ sampled.err = "none"
        /\ sampled.grid.shape =
              <<n_classes.value * X.shape[2], (n + 1) * X.shape[3], X.shape[4]>>
        /\ \A id \in 0..(n_classes.value - 1) : BandOfClass(sampled.grid, id)

\* C9: with n_classes = None and labels from 0, every class id from 0 up to
\* and including max(Y) has a band in the returned grid.
InferredClassesCoverLabels ==
    (Sampled /\ ~n_classes.given /\ Len(Y) > 0 /\ n >= 1
        /\ X.shape[4] = LabelChannels) =>
        /\ sampled.err = "none"
        /\ Bands(sampled.grid) = SeqMax(Y) + 1

====
